---- MODULE Spec2Model ----
(***************************************************************************)
(* Model of huskyCI's container lifecycle controller                       *)
(* (api/container/container.go).  A Container record is driven by a single *)
(* Run(repositoryURL, branch) call through: docker client creation, the    *)
(* image presence check and pull worker, create, start, wait, output read  *)
(* and removal.  The docker daemon is the environment: every runtime call  *)
(* returns a nondeterministically chosen response.                         *)
(*                                                                         *)
(* Strings that are substituted into (commands) are sequences of tokens;   *)
(* all other strings are opaque TLA+ strings.  "" is Go's zero string and  *)
(* 0 is the zero time.Time.                                                *)
(***************************************************************************)
EXTENDS Integers, Sequences, FiniteSets, TLC

\* ------------------------------------------------------------------ bounds
NumRecords == 2          \* Container records in the model
MaxLateTicks == 1        \* ticks the select may still pick after the deadline fired
MaxAdminCalls == 1       \* out-of-band Stop/Remove calls per record

\* ------------------------------------------------------- program constants
PullTimeoutSeconds == 900    \* time.After(15 * time.Minute)
RetryTickSeconds == 15       \* time.NewTicker(15 * time.Second)

Records == 1..NumRecords

\* ------------------------------------------------------ process environment
\* the HUSKYCI_ variables the process was started with ("" is unset)
HuskyEnv ==
    [ HUSKYCI_DOCKERAPI_ADDR |-> "dockerapi",
      HUSKYCI_DOCKERAPI_PORT |-> "",
      HUSKYCI_DOCKERAPI_CERT_PATH |-> "/certs",
      HUSKYCI_DOCKERAPI_TLS_VERIFY |-> "" ]

\* the variables setDockerClientEnvs sets, in the order it sets them
EnvKeys == << "DOCKER_HOST", "DOCKER_CERT_PATH", "DOCKER_TLS_VERIFY" >>

\* ------------------------------------------------------------ input domains
RepoURLs == { <<>>, <<"git@x/y">> }
Branches == { <<>>, <<"main">> }
Templates == { <<>>, <<"scan.sh", "%GIT_REPO%", "%GIT_BRANCH%">> }
PrivKeys == { <<>>, <<"KEY">> }
ExitCodes == {0, 1}
Bodies == { "", "scanner output" }

VARIABLES
    pc,           \* position of Run on each record
    dockerClient, \* Container.dockerClient is set
    CID,          \* Container.CID
    Status,       \* Container.Status
    Command,      \* Container.Command
    Output,       \* Container.Output
    StartedAt,    \* Container.StartedAt
    FinishedAt,   \* Container.FinishedAt
    args,         \* Run's arguments (repositoryURL, branch)
    ret,          \* Run's return value: "running", "nil" or an error
    calls,        \* runtime calls issued by Run, with their responses
    elapsed,      \* seconds since PullImageWorker armed its timers
    tickPending,  \* retryTick.C holds an undelivered tick
    lateTicks,    \* ticks handled although the timeout had fired
    adminLog,     \* out-of-band Stop/Remove calls
    dockerEnv,    \* the process environment variables DOCKER_*
    clientEnv,    \* the DOCKER_* values each record's client was built from
    evalPc,       \* position of RetirejsStartAnalysis: "off", "ready" or "done"
    evalArgs,     \* RetirejsStartAnalysis' arguments CID and cOutput
    db,           \* per container identifier, the fields cOutput and cResult of its run record
    evalLog,      \* Unmarshal attempts, severity scans and gateway updates of the evaluator
    cmdPc,        \* position of a lone HandleCmd call: "off", "ready" or "done"
    cmdIn,        \* HandleCmd's arguments
    cmdOut        \* HandleCmd's result

runVars == << pc, dockerClient, CID, Status, Command, Output, StartedAt, FinishedAt,
              args, ret, calls, elapsed, tickPending, lateTicks, adminLog, dockerEnv, clientEnv >>
evalVars == << evalPc, evalArgs, db, evalLog >>
cmdVars == << cmdPc, cmdIn, cmdOut >>
otherVars == << evalVars, cmdVars >>

vars == << runVars, evalVars, cmdVars >>

\* ------------------------------------------------------------ pure helpers
RECURSIVE Replace(_, _, _)
\* strings.Replace(s, old, new, -1) on token sequences, old a single token
Replace(s, old, new) ==
    IF s = <<>> THEN <<>>
    ELSE (IF Head(s) = old THEN new ELSE <<Head(s)>>) \o Replace(Tail(s), old, new)

HandleCmd(repositoryURL, repositoryBranch, cmd) ==
    IF repositoryURL # <<>> /\ repositoryBranch # <<>> /\ cmd # <<>>
    THEN LET replace1 == Replace(cmd, "%GIT_REPO%", repositoryURL)
             replace2 == Replace(replace1, "%GIT_BRANCH%", repositoryBranch)
         IN  replace2
    ELSE <<>>

HandlePrivateSSHKey(rawString, privKey) ==
    Replace(rawString, "GIT_PRIVATE_SSH_KEY", privKey)

\* the identifier the runtime assigns to the container of record r
RespID(r) == IF r = 1 THEN "cid1" ELSE IF r = 2 THEN "cid2" ELSE "cid3"

\* time.Now() as the logical clock of a run: one more than the calls in log
Now(log) == Len(log) + 1

Call(op, res, cid) ==
    [op |-> op, res |-> res, cid |-> cid, cmd |-> <<>>, code |-> 0, body |-> ""]

Log(r, entry) == [calls EXCEPT ![r] = Append(@, entry)]

Return(r, err) ==
    /\ ret' = [ret EXCEPT ![r] = err]
    /\ pc' = [pc EXCEPT ![r] = "done"]

Goto(r, label) ==
    /\ pc' = [pc EXCEPT ![r] = label]
    /\ UNCHANGED ret

timerVars == << elapsed, tickPending, lateTicks >>
envVars == << dockerEnv, clientEnv >>
recordVars == << CID, Status, Command, Output, StartedAt, FinishedAt >>

\* -------------------------------------------------------------------- Init
InitRecord ==
    /\ dockerClient = [r \in Records |-> FALSE]
    /\ CID = [r \in Records |-> ""]
    /\ Status = [r \in Records |-> ""]
    /\ Command \in [Records -> Templates]
    /\ Output = [r \in Records |-> ""]
    /\ StartedAt = [r \in Records |-> 0]
    /\ FinishedAt = [r \in Records |-> 0]
    /\ args = [r \in Records |-> [repositoryURL |-> <<>>, branch |-> <<>>]]
    /\ ret = [r \in Records |-> "running"]
    /\ calls = [r \in Records |-> <<>>]
    /\ elapsed = [r \in Records |-> 0]
    /\ tickPending = [r \in Records |-> FALSE]
    /\ lateTicks = [r \in Records |-> 0]
    /\ adminLog = [r \in Records |-> <<>>]
    /\ dockerEnv = [k \in {EnvKeys[n] : n \in DOMAIN EnvKeys} |-> <<>>]
    /\ clientEnv = [r \in Records |-> dockerEnv]

\* the identifiers the runtime assigns
CIDs == { RespID(r) : r \in Records }

\* a raw container output: whether it contains "ERROR_CLONING", whether it
\* unmarshals into RetirejsOutput, and the "data" array it then carries
RawOutput(marker, wellFormed, data) ==
    [marker |-> marker, wellFormed |-> wellFormed, data |-> data]

\* a literal text, and fmt.Sprintf of a format with one %s argument
Text(literal) == [format |-> literal, arg |-> <<>>]

Sprintf(format, arg) == [format |-> format, arg |-> <<arg>>]

\* no evaluator call and no lone HandleCmd call is under way
NoEval ==
    /\ evalPc = "off"
    /\ evalArgs = [CID |-> "", cOutput |-> RawOutput(FALSE, FALSE, <<>>)]
    /\ db = [cid \in CIDs |-> [cOutput |-> Text(""), cResult |-> ""]]
    /\ evalLog = <<>>

NoCmd ==
    /\ cmdPc = "off"
    /\ cmdIn = [repositoryURL |-> <<>>, branch |-> <<>>, cmd |-> <<>>]
    /\ cmdOut = <<>>

\* one record is handed to Run; the others are never used
Init ==
    /\ InitRecord
    /\ NoEval
    /\ NoCmd
    /\ pc = [r \in Records |-> IF r = 1 THEN "idle" ELSE "unused"]
    /\ \A r \in Records : pc[r] = "unused" => Command[r] = <<>>

\* ------------------------------------------------------------ Run, step 0
\* the caller invokes Run(repositoryURL, branch) on a fresh record; the two
\* arguments are not read before step 3 and are drawn there
RunBegin(r) ==
    /\ pc[r] = "idle"
    /\ Goto(r, "newDockerClient")
    /\ UNCHANGED << otherVars, envVars, dockerClient, recordVars, args, calls, timerVars, adminLog >>

\* what setDockerClientEnvs writes: the port defaults to 2376 and TLS
\* verification to "1" when the HUSKYCI_ variable is empty
DockerEnvValue(key) ==
    LET dockerAPIPort == IF HuskyEnv.HUSKYCI_DOCKERAPI_PORT = ""
                         THEN "2376" ELSE HuskyEnv.HUSKYCI_DOCKERAPI_PORT
        tlsVerify == IF HuskyEnv.HUSKYCI_DOCKERAPI_TLS_VERIFY = ""
                     THEN "1" ELSE HuskyEnv.HUSKYCI_DOCKERAPI_TLS_VERIFY
    IN  CASE key = "DOCKER_HOST" ->
                << "https://", HuskyEnv.HUSKYCI_DOCKERAPI_ADDR, ":", dockerAPIPort >>
          [] key = "DOCKER_CERT_PATH" -> << HuskyEnv.HUSKYCI_DOCKERAPI_CERT_PATH >>
          [] key = "DOCKER_TLS_VERIFY" -> << tlsVerify >>

\* Run's position before each of the three os.Setenv calls, in order
SetenvLabels == << "newDockerClient", "setCertPath", "setTLSVerify" >>

\* step 1, first half: setDockerClientEnvs sets the three variables of the
\* process environment one after the other and stops at the first os.Setenv
\* that fails; the environment is shared by every Run of the process
SetDockerClientEnvs(r) ==
    /\ \E n \in DOMAIN SetenvLabels, ok \in BOOLEAN :
          /\ pc[r] = SetenvLabels[n]
          /\ IF ok
             THEN /\ dockerEnv' = [dockerEnv EXCEPT ![EnvKeys[n]] = DockerEnvValue(EnvKeys[n])]
                  /\ Goto(r, IF n < Len(SetenvLabels) THEN SetenvLabels[n + 1] ELSE "newEnvClient")
             ELSE /\ UNCHANGED dockerEnv
                  /\ Return(r, "errSetenv")
    /\ UNCHANGED << otherVars, clientEnv, dockerClient, recordVars, args, calls, timerVars, adminLog >>

\* step 1, second half: client.NewEnvClient reads the DOCKER_* variables and
\* the new client is stored in the record
NewDockerClient(r) ==
    /\ pc[r] = "newEnvClient"
    /\ \E err \in {"ok", "errNewEnvClient"} :
          IF err = "ok"
          THEN /\ dockerClient' = [dockerClient EXCEPT ![r] = TRUE]
               /\ clientEnv' = [clientEnv EXCEPT ![r] = dockerEnv]
               /\ Goto(r, "imageIsLoaded")
          ELSE /\ UNCHANGED << dockerClient, clientEnv >>
               /\ Return(r, err)
    /\ UNCHANGED << otherVars, dockerEnv, recordVars, args, calls, timerVars, adminLog >>

\* step 2: pull image if it is not there yet; the worker arms its two timers
RunImageIsLoaded(r) ==
    /\ pc[r] = "imageIsLoaded"
    /\ \E res \in {"present", "absent", "errImageList"} :
          /\ calls' = Log(r, Call("ImageList", res, ""))
          /\ CASE res = "errImageList" -> Return(r, res)
               [] res = "present"      -> Goto(r, "create")
               [] res = "absent"       -> Goto(r, "select")
    /\ UNCHANGED << otherVars, envVars, dockerClient, recordVars, args, timerVars, adminLog >>

\* ---------------------------------------------------------- PullImageWorker
InWorker(r) == pc[r] \in {"select", "tickImageIsLoaded", "tickPullImage"}

TimersFired(r) ==
    /\ elapsed' = [elapsed EXCEPT ![r] =
                      IF @ + RetryTickSeconds > PullTimeoutSeconds
                      THEN PullTimeoutSeconds ELSE @ + RetryTickSeconds]
    /\ tickPending' = [tickPending EXCEPT ![r] = TRUE]

\* one retry interval passes while the worker is blocked or busy: the ticker
\* puts a tick in its one-slot channel (a tick nobody took is overwritten)
TimePasses(r) ==
    /\ InWorker(r)
    /\ TimersFired(r)
    /\ UNCHANGED << otherVars, envVars, pc, ret, dockerClient, recordVars, args, calls, lateTicks, adminLog >>

\* the timers are locals of PullImageWorker: gone when it returns
WorkerExit(r) ==
    /\ elapsed' = [elapsed EXCEPT ![r] = 0]
    /\ tickPending' = [tickPending EXCEPT ![r] = FALSE]
    /\ lateTicks' = [lateTicks EXCEPT ![r] = 0]

\* faulty variant of SelectTimeout: the return is replaced by a break that only
\* leaves the select, and Run carries on as if the image were there
SelectTimeout_FallsThrough(r) ==
    /\ pc[r] = "select"
    /\ elapsed[r] >= PullTimeoutSeconds
    /\ Goto(r, "create")
    /\ WorkerExit(r)
    /\ UNCHANGED << otherVars, envVars, dockerClient, recordVars, args, calls, adminLog >>

\* case <-timeout
SelectTimeout(r) ==
    /\ pc[r] = "select"
    /\ elapsed[r] >= PullTimeoutSeconds
    /\ Return(r, "timeout")
    /\ WorkerExit(r)
    /\ UNCHANGED << otherVars, envVars, dockerClient, recordVars, args, calls, adminLog >>

\* case <-retryTick.C (select picks any ready case)
SelectTick(r) ==
    /\ pc[r] = "select"
    /\ tickPending[r]
    /\ elapsed[r] >= PullTimeoutSeconds => lateTicks[r] < MaxLateTicks
    /\ tickPending' = [tickPending EXCEPT ![r] = FALSE]
    /\ lateTicks' = [lateTicks EXCEPT ![r] =
                        IF elapsed[r] >= PullTimeoutSeconds THEN @ + 1 ELSE @]
    /\ Goto(r, "tickImageIsLoaded")
    /\ UNCHANGED << otherVars, envVars, elapsed, dockerClient, recordVars, args, calls, adminLog >>

\* faulty variant of TickImageIsLoaded: the pull is issued whatever the check said
TickImageIsLoaded_PullsAnyway(r) ==
    /\ pc[r] = "tickImageIsLoaded"
    /\ \E res \in {"present", "absent", "errImageList"} :
          /\ calls' = Log(r, Call("ImageList", res, ""))
          /\ IF res = "errImageList"
             THEN Return(r, res) /\ WorkerExit(r)
             ELSE Goto(r, "tickPullImage") /\ UNCHANGED timerVars
    /\ UNCHANGED << otherVars, envVars, dockerClient, recordVars, args, adminLog >>

\* faulty variant of TickImageIsLoaded: a failed presence check is retried on
\* the next tick like an absent image
TickImageIsLoaded_RetriesOnError(r) ==
    /\ pc[r] = "tickImageIsLoaded"
    /\ \E res \in {"present", "absent", "errImageList"} :
          /\ calls' = Log(r, Call("ImageList", res, ""))
          /\ CASE res = "errImageList" -> Goto(r, "select") /\ UNCHANGED timerVars
               [] res = "present"      -> Goto(r, "create") /\ WorkerExit(r)
               [] res = "absent"       -> Goto(r, "tickPullImage") /\ UNCHANGED timerVars
    /\ UNCHANGED << otherVars, envVars, dockerClient, recordVars, args, adminLog >>

TickImageIsLoaded(r) ==
    /\ pc[r] = "tickImageIsLoaded"
    /\ \E res \in {"present", "absent", "errImageList"} :
          /\ calls' = Log(r, Call("ImageList", res, ""))
          /\ CASE res = "errImageList" -> Return(r, res) /\ WorkerExit(r)
               [] res = "present"      -> Goto(r, "create") /\ WorkerExit(r)
               [] res = "absent"       -> Goto(r, "tickPullImage") /\ UNCHANGED timerVars
    /\ UNCHANGED << otherVars, envVars, dockerClient, recordVars, args, adminLog >>

\* faulty variant of TickPullImage: the pull error is dropped and polling goes on
TickPullImage_DropsError(r) ==
    /\ pc[r] = "tickPullImage"
    /\ \E res \in {"ok", "errImagePull"} :
          calls' = Log(r, Call("ImagePull", res, ""))
    /\ Goto(r, "select")
    /\ UNCHANGED << otherVars, envVars, dockerClient, recordVars, args, timerVars, adminLog >>

TickPullImage(r) ==
    /\ pc[r] = "tickPullImage"
    /\ \E res \in {"ok", "errImagePull"} :
          /\ calls' = Log(r, Call("ImagePull", res, ""))
          /\ IF res = "ok"
             THEN Goto(r, "select") /\ UNCHANGED timerVars
             ELSE Return(r, res) /\ WorkerExit(r)
    /\ UNCHANGED << otherVars, envVars, dockerClient, recordVars, args, adminLog >>

\* ------------------------------------------------------------ Run, steps 3-7
\* step 3: create the container from the command resolved for Run's arguments;
\* on success Status = "created" and StartedAt is taken
RunCreate(r) ==
    /\ pc[r] = "create"
    /\ \E repositoryURL \in RepoURLs, branch \in Branches,
          privKey \in PrivKeys, res \in {"ok", "errCreate"} :
          LET cmd == HandleCmd(repositoryURL, branch, Command[r])
              finalCMD == HandlePrivateSSHKey(cmd, privKey)
          IN  /\ args' = [args EXCEPT ![r] = [repositoryURL |-> repositoryURL, branch |-> branch]]
              /\ calls' = Log(r, [Call("ContainerCreate", res, "") EXCEPT !.cmd = finalCMD])
              /\ IF res = "ok"
                 THEN /\ CID' = [CID EXCEPT ![r] = RespID(r)]
                      /\ Status' = [Status EXCEPT ![r] = "created"]
                      /\ StartedAt' = [StartedAt EXCEPT ![r] = Now(calls'[r])]
                      /\ Goto(r, "start")
                 ELSE /\ UNCHANGED << CID, Status, StartedAt >>
                      /\ Return(r, res)
    /\ UNCHANGED << otherVars, envVars, dockerClient, Command, Output, FinishedAt, timerVars, adminLog >>

\* faulty variant of RunStart: the start error is logged but Run goes on to wait
RunStart_IgnoresError(r) ==
    /\ pc[r] = "start"
    /\ \E res \in {"ok", "errStart"} :
          calls' = Log(r, Call("ContainerStart", res, CID[r]))
    /\ Status' = [Status EXCEPT ![r] = "running"]
    /\ Goto(r, "wait")
    /\ UNCHANGED << otherVars, envVars, dockerClient, CID, Command, Output, StartedAt, FinishedAt,
                    args, timerVars, adminLog >>

\* faulty variant of RunStart: the failure path forgets to set Status
RunStart_KeepsStatus(r) ==
    /\ pc[r] = "start"
    /\ \E res \in {"ok", "errStart"} :
          /\ calls' = Log(r, Call("ContainerStart", res, CID[r]))
          /\ IF res = "ok"
             THEN /\ Status' = [Status EXCEPT ![r] = "running"]
                  /\ Goto(r, "wait")
             ELSE /\ UNCHANGED Status
                  /\ Return(r, res)
    /\ UNCHANGED << otherVars, envVars, dockerClient, CID, Command, Output, StartedAt, FinishedAt,
                    args, timerVars, adminLog >>

\* step 4: start the container
RunStart(r) ==
    /\ pc[r] = "start"
    /\ \E res \in {"ok", "errStart"} :
          /\ calls' = Log(r, Call("ContainerStart", res, CID[r]))
          /\ IF res = "ok"
             THEN /\ Status' = [Status EXCEPT ![r] = "running"]
                  /\ Goto(r, "wait")
             ELSE /\ Status' = [Status EXCEPT ![r] = "finished"]
                  /\ Return(r, res)
    /\ UNCHANGED << otherVars, envVars, dockerClient, CID, Command, Output, StartedAt, FinishedAt,
                    args, timerVars, adminLog >>

\* faulty variant of RunWait: the failure path writes the wrong status
RunWait_StatusCreated(r) ==
    /\ pc[r] = "wait"
    /\ \E statusCode \in ExitCodes, res \in {"ok", "errWait"} :
          /\ calls' = Log(r, [Call("ContainerWait", res, CID[r]) EXCEPT !.code = statusCode])
          /\ IF res = "ok"
             THEN /\ FinishedAt' = [FinishedAt EXCEPT ![r] = Now(calls'[r])]
                  /\ UNCHANGED Status
                  /\ Goto(r, "containerLogs")
             ELSE /\ Status' = [Status EXCEPT ![r] = "created"]
                  /\ UNCHANGED FinishedAt
                  /\ Return(r, res)
    /\ UNCHANGED << otherVars, envVars, dockerClient, CID, Command, Output, StartedAt, args, timerVars, adminLog >>

\* faulty variant of RunWait: a non-zero exit status is treated as a wait error
RunWait_ExitStatusFatal(r) ==
    /\ pc[r] = "wait"
    /\ \E statusCode \in ExitCodes, res \in {"ok", "errWait"} :
          /\ calls' = Log(r, [Call("ContainerWait", res, CID[r]) EXCEPT !.code = statusCode])
          /\ IF res = "ok" /\ statusCode = 0
             THEN /\ FinishedAt' = [FinishedAt EXCEPT ![r] = Now(calls'[r])]
                  /\ UNCHANGED Status
                  /\ Goto(r, "containerLogs")
             ELSE /\ Status' = [Status EXCEPT ![r] = "finished"]
                  /\ UNCHANGED FinishedAt
                  /\ Return(r, "errWait")
    /\ UNCHANGED << otherVars, envVars, dockerClient, CID, Command, Output, StartedAt, args, timerVars, adminLog >>

\* faulty variant of RunWait: FinishedAt is never taken
RunWait_NoFinishedAt(r) ==
    /\ pc[r] = "wait"
    /\ \E statusCode \in ExitCodes, res \in {"ok", "errWait"} :
          /\ calls' = Log(r, [Call("ContainerWait", res, CID[r]) EXCEPT !.code = statusCode])
          /\ IF res = "ok"
             THEN /\ UNCHANGED Status
                  /\ Goto(r, "containerLogs")
             ELSE /\ Status' = [Status EXCEPT ![r] = "finished"]
                  /\ Return(r, res)
    /\ UNCHANGED << otherVars, envVars, dockerClient, CID, Command, Output, StartedAt, FinishedAt,
                    args, timerVars, adminLog >>

\* step 5: wait the container finish; then FinishedAt is taken
RunWait(r) ==
    /\ pc[r] = "wait"
    /\ \E statusCode \in ExitCodes, res \in {"ok", "errWait"} :
          /\ calls' = Log(r, [Call("ContainerWait", res, CID[r]) EXCEPT !.code = statusCode])
          /\ IF res = "ok"
             THEN /\ FinishedAt' = [FinishedAt EXCEPT ![r] = Now(calls'[r])]
                  /\ UNCHANGED Status
                  /\ Goto(r, "containerLogs")
             ELSE /\ Status' = [Status EXCEPT ![r] = "finished"]
                  /\ UNCHANGED FinishedAt
                  /\ Return(r, res)
    /\ UNCHANGED << otherVars, envVars, dockerClient, CID, Command, Output, StartedAt, args, timerVars, adminLog >>

\* step 6: ReadOutput, first half: open the log stream
RunContainerLogs(r) ==
    /\ pc[r] = "containerLogs"
    /\ \E res \in {"ok", "errLogs"} :
          /\ calls' = Log(r, Call("ContainerLogs", res, CID[r]))
          /\ IF res = "ok" THEN Goto(r, "readAll") ELSE Return(r, res)
    /\ UNCHANGED << otherVars, envVars, dockerClient, recordVars, args, timerVars, adminLog >>

\* faulty variant of RunReadAll: the output is kept in one place for all records
RunReadAll_SharedOutput(r) ==
    /\ pc[r] = "readAll"
    /\ \E body \in Bodies, res \in {"ok", "errReadAll"} :
          IF res = "ok"
          THEN /\ calls' = Log(r, [Call("ReadAll", res, CID[r]) EXCEPT !.body = body])
               /\ Output' = [q \in Records |-> body]
               /\ Status' = [Status EXCEPT ![r] = "finished"]
               /\ Goto(r, "remove")
          ELSE /\ calls' = Log(r, Call("ReadAll", res, CID[r]))
               /\ UNCHANGED << Output, Status >>
               /\ Return(r, res)
    /\ UNCHANGED << otherVars, envVars, dockerClient, CID, Command, StartedAt, FinishedAt, args, timerVars, adminLog >>

\* step 6: ReadOutput, second half: read the stream; then Status = "finished"
RunReadAll(r) ==
    /\ pc[r] = "readAll"
    /\ \E body \in Bodies, res \in {"ok", "errReadAll"} :
          IF res = "ok"
          THEN /\ calls' = Log(r, [Call("ReadAll", res, CID[r]) EXCEPT !.body = body])
               /\ Output' = [Output EXCEPT ![r] = body]
               /\ Status' = [Status EXCEPT ![r] = "finished"]
               /\ Goto(r, "remove")
          ELSE /\ calls' = Log(r, Call("ReadAll", res, CID[r]))
               /\ UNCHANGED << Output, Status >>
               /\ Return(r, res)
    /\ UNCHANGED << otherVars, envVars, dockerClient, CID, Command, StartedAt, FinishedAt, args, timerVars, adminLog >>

\* faulty variant of RunRemove: the removal error is returned
RunRemove_ReturnsError(r) ==
    /\ pc[r] = "remove"
    /\ \E res \in {"ok", "errRemove"} :
          /\ calls' = Log(r, Call("ContainerRemove", res, CID[r]))
          /\ Return(r, IF res = "ok" THEN "nil" ELSE res)
    /\ UNCHANGED << otherVars, envVars, dockerClient, recordVars, args, timerVars, adminLog >>

\* step 7: remove container from docker API; its error is only logged
RunRemove(r) ==
    /\ pc[r] = "remove"
    /\ \E res \in {"ok", "errRemove"} :
          calls' = Log(r, Call("ContainerRemove", res, CID[r]))
    /\ Return(r, "nil")
    /\ UNCHANGED << otherVars, envVars, dockerClient, recordVars, args, timerVars, adminLog >>

\* ------------------------------------------- operations outside the run path
\* Stop and Remove by CID, called by the owner once Run has returned; the
\* runtime's answer goes to the caller and the record is left alone
Admin(r, op) ==
    /\ pc[r] = "done"
    /\ dockerClient[r]
    /\ Len(adminLog[r]) < MaxAdminCalls
    /\ adminLog' = [adminLog EXCEPT ![r] = Append(@, [op |-> op, cid |-> CID[r]])]
    /\ UNCHANGED << otherVars, envVars, pc, ret, dockerClient, recordVars, args, calls, timerVars >>

Stop(r) == Admin(r, "ContainerStop")

Remove(r) == Admin(r, "ContainerRemove")

\* -------------------------------------------------------------------- Next
Next ==
    \E r \in Records :
        \/ RunBegin(r)
        \/ SetDockerClientEnvs(r)
        \/ NewDockerClient(r)
        \/ RunImageIsLoaded(r)
        \/ TimePasses(r)
        \/ SelectTimeout(r)
        \/ SelectTick(r)
        \/ TickImageIsLoaded(r)
        \/ TickPullImage(r)
        \/ RunCreate(r)
        \/ RunStart(r)
        \/ RunWait(r)
        \/ RunContainerLogs(r)
        \/ RunReadAll(r)
        \/ RunRemove(r)
        \/ Stop(r)
        \/ Remove(r)

Spec == Init /\ [][Next]_vars

\* the steps of PullImageWorker that wait for the runtime to answer
WorkerCall(r) == RunImageIsLoaded(r) \/ TickImageIsLoaded(r) \/ TickPullImage(r)

\* every runtime call of the image steps returns; time keeps passing; the
\* select picks each ready case with equal probability, so a case that is
\* ready again and again is eventually picked
FairSpec ==
    /\ Spec
    /\ \A r \in Records :
          /\ WF_vars(WorkerCall(r))
          /\ WF_vars(TimePasses(r))
          /\ SF_vars(SelectTimeout(r))

\* ------------------------------------------------ analysis/retirejs.go
(***************************************************************************)
(* RetirejsStartAnalysis(CID, cOutput).  The "data" array of the scanner   *)
(* output is a sequence of issues, an issue a sequence of results, a       *)
(* result a sequence of vulnerabilities.  UpdateOneDBAnalysisContainer is  *)
(* the environment: it applies the $set document or fails.                 *)
(***************************************************************************)
MaxDocSize == 6          \* issues + results + vulnerabilities of a scanner output

Severities == {"low", "medium", "high"}

Issue(results) == [RetirejsResults |-> results]

Result(vulnerabilities) == [RetirejsVulnerabilities |-> vulnerabilities]

Vulnerability(severity) == [Severity |-> severity]

\* the "data" arrays with one more issue, result or vulnerability at the end
Grow(data) ==
    LET n == Len(data)
        results == data[n].RetirejsResults
        m == Len(results)
    IN  { Append(data, Issue(<<>>)) }
        \cup (IF n = 0 THEN {}
              ELSE { [data EXCEPT ![n] = Issue(Append(results, Result(<<>>)))] })
        \cup (IF n = 0 \/ m = 0 THEN {}
              ELSE { [data EXCEPT ![n] = Issue([results EXCEPT ![m] =
                         Result(Append(@.RetirejsVulnerabilities, Vulnerability(sev)))])]
                     : sev \in Severities })

RECURSIVE DataUpTo(_)
DataUpTo(size) ==
    IF size = 0 THEN { <<>> }
    ELSE LET smaller == DataUpTo(size - 1)
         IN  smaller \cup UNION { Grow(data) : data \in smaller }

RawOutputs ==
    { RawOutput(marker, FALSE, <<>>) : marker \in BOOLEAN }
    \cup { RawOutput(marker, TRUE, data) : marker \in BOOLEAN, data \in DataUpTo(MaxDocSize) }

\* json.Unmarshal([]byte(cOutput), &retirejsOutput)
Unmarshal(raw) ==
    IF raw.wellFormed
    THEN [err |-> FALSE, RetirejsIssues |-> raw.data]
    ELSE [err |-> TRUE, RetirejsIssues |-> <<>>]

\* step 2, the three nested range loops; the break leaves the innermost only
RECURSIVE ScanVulnerabilities_LastWins(_, _)
\* faulty variant of ScanVulnerabilities: every vulnerability overwrites cResult
ScanVulnerabilities_LastWins(vulnerabilities, cResult) ==
    IF vulnerabilities = <<>> THEN cResult
    ELSE ScanVulnerabilities_LastWins(Tail(vulnerabilities),
             IF Head(vulnerabilities).Severity \in {"high", "medium"}
             THEN "failed" ELSE "passed")

RECURSIVE ScanVulnerabilities(_, _)
ScanVulnerabilities(vulnerabilities, cResult) ==
    IF vulnerabilities = <<>> THEN cResult
    ELSE IF Head(vulnerabilities).Severity = "high" \/ Head(vulnerabilities).Severity = "medium"
         THEN "failed"
         ELSE ScanVulnerabilities(Tail(vulnerabilities), cResult)

RECURSIVE ScanResults(_, _)
ScanResults(results, cResult) ==
    IF results = <<>> THEN cResult
    ELSE ScanResults(Tail(results),
                     ScanVulnerabilities(Head(results).RetirejsVulnerabilities, cResult))

RECURSIVE ScanIssues(_, _)
ScanIssues(issues, cResult) ==
    IF issues = <<>> THEN cResult
    ELSE ScanIssues(Tail(issues), ScanResults(Head(issues).RetirejsResults, cResult))

\* UpdateOneDBAnalysisContainer on the record of the container cid: the fields of the $set
\* document are written when the gateway accepts the update
UpdateOne(cid, set, ok) ==
    /\ db' = IF ok /\ cid \in DOMAIN db
             THEN [db EXCEPT ![cid] = [f \in DOMAIN @ |-> IF f \in DOMAIN set THEN set[f] ELSE @[f]]]
             ELSE db
    /\ evalPc' = "done"

Did(step) == [step |-> step]

DidUpdate(cid, set, ok) == [step |-> "UpdateOne", cid |-> cid, set |-> set, ok |-> ok]

evalFrame == << runVars, cmdVars, evalArgs >>

\* faulty variant of EvalCloneError: the output is unmarshalled before the
\* marker is looked for
EvalCloneError_AfterUnmarshal ==
    /\ evalPc = "ready"
    /\ evalArgs.cOutput.marker
    /\ \E ok \in BOOLEAN :
          LET errorOutput == Sprintf("Container error: %s", evalArgs.cOutput)
              set == [cOutput |-> errorOutput, cResult |-> "failed"]
          IN  /\ UpdateOne(evalArgs.CID, set, ok)
              /\ evalLog' = << Did("Unmarshal"), DidUpdate(evalArgs.CID, set, ok) >>
    /\ UNCHANGED evalFrame

\* step 0.1: error cloning repository
EvalCloneError ==
    /\ evalPc = "ready"
    /\ evalArgs.cOutput.marker
    /\ \E ok \in BOOLEAN :
          LET errorOutput == Sprintf("Container error: %s", evalArgs.cOutput)
              set == [cOutput |-> errorOutput, cResult |-> "failed"]
          IN  /\ UpdateOne(evalArgs.CID, set, ok)
              /\ evalLog' = << DidUpdate(evalArgs.CID, set, ok) >>
    /\ UNCHANGED evalFrame

\* faulty variant of EvalUnmarshalError: the parse failure is persisted as a verdict
EvalUnmarshalError_PersistsFailed ==
    /\ evalPc = "ready"
    /\ ~evalArgs.cOutput.marker
    /\ Unmarshal(evalArgs.cOutput).err
    /\ \E ok \in BOOLEAN :
          LET set == [cResult |-> "failed"]
          IN  /\ UpdateOne(evalArgs.CID, set, ok)
              /\ evalLog' = << Did("Unmarshal"), DidUpdate(evalArgs.CID, set, ok) >>
    /\ UNCHANGED evalFrame

\* step 1: Unmarshal fails; the error and cOutput are logged
EvalUnmarshalError ==
    /\ evalPc = "ready"
    /\ ~evalArgs.cOutput.marker
    /\ Unmarshal(evalArgs.cOutput).err
    /\ evalLog' = << Did("Unmarshal") >>
    /\ evalPc' = "done"
    /\ UNCHANGED << evalFrame, db >>

\* faulty variant of EvalNoIssues: the update also sets cResult
EvalNoIssues_SetsPassed ==
    /\ evalPc = "ready"
    /\ ~evalArgs.cOutput.marker
    /\ ~Unmarshal(evalArgs.cOutput).err
    /\ Len(Unmarshal(evalArgs.cOutput).RetirejsIssues) = 0
    /\ \E ok \in BOOLEAN :
          LET set == [cOutput |-> Text("No issues found."), cResult |-> "passed"]
          IN  /\ UpdateOne(evalArgs.CID, set, ok)
              /\ evalLog' = << Did("Unmarshal"), DidUpdate(evalArgs.CID, set, ok) >>
    /\ UNCHANGED evalFrame

\* faulty variant of EvalNoIssues: the return is missing and the severity scan
\* and its update follow
EvalNoIssues_FallsThrough ==
    /\ evalPc = "ready"
    /\ ~evalArgs.cOutput.marker
    /\ ~Unmarshal(evalArgs.cOutput).err
    /\ Len(Unmarshal(evalArgs.cOutput).RetirejsIssues) = 0
    /\ \E ok1, ok2 \in BOOLEAN :
          LET set1 == [cOutput |-> Text("No issues found.")]
              set2 == [cResult |-> ScanIssues(Unmarshal(evalArgs.cOutput).RetirejsIssues, "passed")]
          IN  /\ UpdateOne(evalArgs.CID, IF ok1 THEN (IF ok2 THEN set1 @@ set2 ELSE set1) ELSE set2,
                           ok1 \/ ok2)
              /\ evalLog' = << Did("Unmarshal"), DidUpdate(evalArgs.CID, set1, ok1),
                               Did("scan"), DidUpdate(evalArgs.CID, set2, ok2) >>
    /\ UNCHANGED evalFrame

\* step 1.1: RetirejsIssues is an empty slice
EvalNoIssues ==
    /\ evalPc = "ready"
    /\ ~evalArgs.cOutput.marker
    /\ ~Unmarshal(evalArgs.cOutput).err
    /\ Len(Unmarshal(evalArgs.cOutput).RetirejsIssues) = 0
    /\ \E ok \in BOOLEAN :
          LET set == [cOutput |-> Text("No issues found.")]
          IN  /\ UpdateOne(evalArgs.CID, set, ok)
              /\ evalLog' = << Did("Unmarshal"), DidUpdate(evalArgs.CID, set, ok) >>
    /\ UNCHANGED evalFrame

\* steps 2 and 3: the severity scan and the update of cResult
EvalSeverityScan ==
    /\ evalPc = "ready"
    /\ ~evalArgs.cOutput.marker
    /\ ~Unmarshal(evalArgs.cOutput).err
    /\ Len(Unmarshal(evalArgs.cOutput).RetirejsIssues) # 0
    /\ \E ok \in BOOLEAN :
          LET cResult == ScanIssues(Unmarshal(evalArgs.cOutput).RetirejsIssues, "passed")
              set == [cResult |-> cResult]
          IN  /\ UpdateOne(evalArgs.CID, set, ok)
              /\ evalLog' = << Did("Unmarshal"), Did("scan"), DidUpdate(evalArgs.CID, set, ok) >>
    /\ UNCHANGED evalFrame

RetirejsStartAnalysis ==
    \/ EvalCloneError
    \/ EvalUnmarshalError
    \/ EvalNoIssues
    \/ EvalSeverityScan

\* the records the controller may have left behind for the finished containers
EvalInit ==
    /\ InitRecord
    /\ pc = [r \in Records |-> "unused"]
    /\ Command = [r \in Records |-> <<>>]
    /\ NoCmd
    /\ evalPc = "ready"
    /\ evalArgs \in [CID : CIDs, cOutput : RawOutputs]
    /\ db \in [CIDs -> { [cOutput |-> Text(""), cResult |-> ""],
                          [cOutput |-> Text("earlier output"), cResult |-> "failed"] }]
    /\ evalLog = <<>>

EvalNext == RetirejsStartAnalysis

EvalSpec == EvalInit /\ [][EvalNext]_vars

\* ----------------------------------------------------- HandleCmd on its own
MaxCmdLen == 3           \* tokens of a command template

CmdTokens == {"scan.sh", "%GIT_REPO%", "%GIT_BRANCH%"}

RECURSIVE SeqsUpTo(_, _)
SeqsUpTo(tokens, len) ==
    IF len = 0 THEN { <<>> }
    ELSE LET shorter == SeqsUpTo(tokens, len - 1)
         IN  shorter \cup { Append(seq, t) : seq \in shorter, t \in tokens }

CmdTemplates == SeqsUpTo(CmdTokens, MaxCmdLen)

\* repository URLs and branch names, also ones that spell a placeholder
CmdRepoURLs == { <<>>, <<"git@x/y">>, <<"git@x/", "%GIT_BRANCH%">> }

CmdBranches == { <<>>, <<"main">>, <<"%GIT_REPO%">> }

CallHandleCmd ==
    /\ cmdPc = "ready"
    /\ cmdOut' = HandleCmd(cmdIn.repositoryURL, cmdIn.branch, cmdIn.cmd)
    /\ cmdPc' = "done"
    /\ UNCHANGED << runVars, evalVars, cmdIn >>

CmdInit ==
    /\ InitRecord
    /\ pc = [r \in Records |-> "unused"]
    /\ Command = [r \in Records |-> <<>>]
    /\ NoEval
    /\ cmdPc = "ready"
    /\ cmdIn \in [repositoryURL : CmdRepoURLs, branch : CmdBranches, cmd : CmdTemplates]
    /\ cmdOut = <<>>

CmdNext == CallHandleCmd

CmdSpec == CmdInit /\ [][CmdNext]_vars

\* ------------------------------------------------- Run on several records
\* the worker goroutine is not scheduled until the first tick is due, or
\* not until the whole pull timeout has passed: TimePasses, many at a time
LongTimePasses(r) ==
    /\ InWorker(r)
    /\ \E t \in {RetryTickSeconds, PullTimeoutSeconds} :
          /\ elapsed[r] < t
          /\ elapsed' = [elapsed EXCEPT ![r] = t]
    /\ tickPending' = [tickPending EXCEPT ![r] = TRUE]
    /\ UNCHANGED << otherVars, envVars, pc, ret, dockerClient, recordVars, args, calls, lateTicks, adminLog >>

\* any step of Run on record r
RunStep(r) ==
    \/ RunBegin(r)
    \/ SetDockerClientEnvs(r)
    \/ NewDockerClient(r)
    \/ RunImageIsLoaded(r)
    \/ LongTimePasses(r)
    \/ SelectTimeout(r)
    \/ SelectTick(r)
    \/ TickImageIsLoaded(r)
    \/ TickPullImage(r)
    \/ RunCreate(r)
    \/ RunStart(r)
    \/ RunWait(r)
    \/ RunContainerLogs(r)
    \/ RunReadAll(r)
    \/ RunRemove(r)

\* the records handed to Run, each in a goroutine of its own
ConcRecords == {1, 2}

ConcInit ==
    /\ InitRecord
    /\ NoEval
    /\ NoCmd
    /\ pc = [r \in Records |-> IF r \in ConcRecords THEN "idle" ELSE "unused"]
    /\ Command = [r \in Records |-> IF r \in ConcRecords
                                      THEN << "scan.sh", "%GIT_REPO%", "%GIT_BRANCH%" >>
                                      ELSE <<>>]

\* the goroutines' steps interleave in any order
ConcNext == \E r \in Records : RunStep(r)

ConcSpec == ConcInit /\ [][ConcNext]_vars

\* ------------------------------------------------------- reading the call log
Idx(r) == DOMAIN calls[r]

Issued(r, op) == \E i \in Idx(r) : calls[r][i].op = op

Returned(r) == pc[r] = "done"

LastCall(r) == calls[r][Len(calls[r])]

\* ------------------------------------------------------------------ claims
\* C1: once Create has succeeded inside Run, every return of Run is preceded
\* by at least one Remove attempt on that container.
C1_RemoveOnEveryReturn ==
    \A r \in Records :
        (Returned(r) /\ CID[r] # "") =>
            \E i \in Idx(r) : calls[r][i].op = "ContainerRemove" /\ calls[r][i].cid = CID[r]

Chain == << "ContainerCreate", "ContainerStart", "ContainerWait",
            "ContainerLogs", "ContainerRemove" >>

\* C2: within one Run the calls ContainerCreate, ContainerStart, ContainerWait,
\* ContainerLogs, ContainerRemove are issued in that order, each at most once,
\* and each only after every earlier call of the chain was issued and returned
\* without error.
C2_StrictCallOrder ==
    \A r \in Records : \A i \in Idx(r) : \A k \in DOMAIN Chain :
        calls[r][i].op = Chain[k] =>
            /\ \A m \in 1..(k - 1) :
                  \E j \in 1..(i - 1) : calls[r][j].op = Chain[m] /\ calls[r][j].res = "ok"
            /\ \A j \in (i + 1)..Len(calls[r]) :
                  \A m \in 1..k : calls[r][j].op # Chain[m]

C2_Witness ==
    /\ Returned(1)
    /\ Len(calls[1]) >= 6
    /\ LastCall(1).op = "ContainerRemove"

Rank(status) ==
    CASE status = ""         -> 0
      [] status = "created"  -> 1
      [] status = "running"  -> 2
      [] status = "finished" -> 3
      [] OTHER               -> -1

ImageErrors == {"errImageList", "errImagePull", "timeout"}

ImageCallFailed(r) ==
    \E i \in Idx(r) : /\ calls[r][i].op \in {"ImageList", "ImagePull"}
                      /\ calls[r][i].res \in ImageErrors

\* C4: if ensuring the image fails (a presence check errors, the pull errors,
\* or the worker times out) Run returns that error, no ContainerCreate is
\* issued, CID stays empty and Status stays unset.
C4_ImageFailureAborts ==
    \A r \in Records :
        /\ ImageCallFailed(r) => Returned(r) /\ ret[r] = LastCall(r).res
        /\ (ImageCallFailed(r) \/ ret[r] = "timeout") =>
              /\ Returned(r)
              /\ ~Issued(r, "ContainerCreate")
              /\ CID[r] = ""
              /\ Status[r] = ""

C4_Witness ==
    /\ Returned(1)
    /\ ret[1] = "errImagePull"
    /\ Len(calls[1]) >= 5

\* C5: after Wait has returned successfully, Status is finished when Run
\* returns, also when Run returns because the output read failed.
C5_FinishedAfterReadFailure ==
    \A r \in Records :
        (Returned(r) /\ \E i \in Idx(r) : calls[r][i].op = "ContainerWait" /\ calls[r][i].res = "ok")
            => Status[r] = "finished"

\* C6: a Start failure or a Wait failure is fatal: the failing call is the
\* last call of the run and was issued once, Run has returned that error with
\* Status finished; StartedAt is taken before the start call is issued.
C6_StartWaitFailureFatal ==
    \A r \in Records :
        /\ \A i \in Idx(r) :
              (calls[r][i].op \in {"ContainerStart", "ContainerWait"} /\ calls[r][i].res # "ok") =>
                  /\ i = Len(calls[r])
                  /\ \A j \in Idx(r) : calls[r][j].op = calls[r][i].op => j = i
                  /\ Returned(r)
                  /\ ret[r] = calls[r][i].res
                  /\ Status[r] = "finished"
        /\ pc[r] = "start" => StartedAt[r] # 0
        /\ \A i \in Idx(r) :
              calls[r][i].op = "ContainerStart" => StartedAt[r] # 0 /\ StartedAt[r] <= i

C6_Witness ==
    /\ Returned(1)
    /\ ret[1] = "errStart"
    /\ StartedAt[1] # 0
    /\ FinishedAt[1] = 0

WaitOK(r, i) == calls[r][i].op = "ContainerWait" /\ calls[r][i].res = "ok"

\* C7: when Wait returns without error, whatever the exit status, Run goes on
\* to the output read; its return value is decided by the calls after Wait
\* alone (nil after the removal, else the error of the output read).
C7_ExitStatusNotAnError ==
    \A r \in Records : \A i \in Idx(r) :
        WaitOK(r, i) =>
            /\ pc[r] \in {"containerLogs", "readAll", "remove", "done"}
            /\ (i = Len(calls[r])) <=> (pc[r] = "containerLogs")
            /\ Returned(r) =>
                  /\ Issued(r, "ContainerLogs")
                  /\ ret[r] = IF LastCall(r).op = "ContainerRemove" THEN "nil" ELSE LastCall(r).res
                  /\ ret[r] \in {"nil", "errLogs", "errReadAll"}

C7_Witness ==
    /\ Returned(1)
    /\ ret[1] = "nil"
    /\ \E i \in Idx(1) : WaitOK(1, i) /\ calls[1][i].code # 0

ReadOK(r, i) == calls[r][i].op = "ReadAll" /\ calls[r][i].res = "ok"

\* C8: when create, start, wait and the output read all succeeded, the next
\* call is the removal and Run returns nil with Status finished and Output
\* holding the text read, whether the removal succeeded or failed.
C8_RemoveFailureSwallowed ==
    \A r \in Records : \A i \in Idx(r) :
        ReadOK(r, i) =>
            /\ Status[r] = "finished"
            /\ Output[r] = calls[r][i].body
            /\ IF pc[r] = "remove"
               THEN i = Len(calls[r])
               ELSE /\ Returned(r)
                    /\ ret[r] = "nil"
                    /\ Len(calls[r]) = i + 1
                    /\ LastCall(r).op = "ContainerRemove"
                    /\ LastCall(r).res \in {"ok", "errRemove"}

C8_Witness ==
    /\ Returned(1)
    /\ ret[1] = "nil"
    /\ LastCall(1).res = "errRemove"
    /\ Output[1] # ""

\* C9: an image that is present is never pulled: after a presence check that
\* returned present the next call is ContainerCreate (the worker is not
\* entered, or returns at once), and every ImagePull directly follows a
\* presence check of the worker that returned absent.
C9_NoPullWhenPresent ==
    \A r \in Records : \A i \in Idx(r) :
        /\ (calls[r][i].op = "ImageList" /\ calls[r][i].res = "present") =>
              /\ ~InWorker(r)
              /\ i < Len(calls[r]) => calls[r][i + 1].op = "ContainerCreate"
        /\ calls[r][i].op = "ImagePull" =>
              /\ i > 2
              /\ calls[r][i - 1].op = "ImageList"
              /\ calls[r][i - 1].res = "absent"
        /\ pc[r] = "tickPullImage" =>
              /\ LastCall(r).op = "ImageList"
              /\ LastCall(r).res = "absent"

C9_Witness ==
    /\ pc[1] = "create"
    /\ Len(calls[1]) = 4
    /\ calls[1][3].op = "ImagePull"
    /\ calls[1][4].res = "present"

\* every presence check so far said absent and every pull returned without error
OnlyAbsent(r) ==
    \A i \in Idx(r) :
        /\ calls[r][i].op = "ImageList" => calls[r][i].res = "absent"
        /\ calls[r][i].op = "ImagePull" => calls[r][i].res = "ok"

\* C10: while every presence check says absent and every pull returns without
\* error, ensuring the image never succeeds, a presence check has been made
\* before the first retry interval of the worker elapses, a timeout is only
\* returned once the deadline has elapsed, and the run eventually returns
\* the timeout error.
C10_AbsentImageTimesOut ==
    /\ [](\A r \in Records :
             OnlyAbsent(r) =>
                 /\ pc[r] \notin {"create", "start", "wait", "containerLogs", "readAll", "remove"}
                 /\ Returned(r) => ret[r] \in {"timeout", "errSetenv", "errNewEnvClient"}
                 /\ (InWorker(r) /\ elapsed[r] < RetryTickSeconds) =>
                        /\ Len(calls[r]) = 1
                        /\ calls[r][1].op = "ImageList")
    /\ [][\A r \in Records :
             (ret'[r] = "timeout" /\ ret[r] # "timeout") =>
                 elapsed[r] >= PullTimeoutSeconds]_vars
    /\ \A r \in Records :
          (pc[r] = "imageIsLoaded") ~>
              (~OnlyAbsent(r) \/ (Returned(r) /\ ret[r] = "timeout"))

C10_Witness ==
    /\ Returned(1)
    /\ ret[1] = "timeout"
    /\ OnlyAbsent(1)
    /\ Len(calls[1]) > 100

ImageCall(r, i) == calls[r][i].op \in {"ImageList", "ImagePull"}

\* C11: in the poll loop a hard error of the presence check or of the pull is
\* the last call of the run and Run has returned that error; a further
\* presence check or pull follows only a presence check that said absent
\* (then the pull) or a pull that returned without error (then the next tick).
C11_HardErrorEndsPolling ==
    \A r \in Records : \A i \in Idx(r) :
        /\ (i > 1 /\ ImageCall(r, i) /\ calls[r][i].res \in {"errImageList", "errImagePull"}) =>
              /\ i = Len(calls[r])
              /\ Returned(r)
              /\ ret[r] = calls[r][i].res
        /\ (i < Len(calls[r]) /\ ImageCall(r, i) /\ ImageCall(r, i + 1)) =>
              \/ /\ calls[r][i].op = "ImageList"
                 /\ calls[r][i].res = "absent"
              \/ /\ calls[r][i].op = "ImagePull"
                 /\ calls[r][i].res = "ok"
                 /\ calls[r][i + 1].op = "ImageList"
        /\ (InWorker(r) /\ i = Len(calls[r])) =>
              calls[r][i].res \in {"absent", "ok"}

C11_Witness ==
    /\ Returned(1)
    /\ ret[1] = "errImageList"
    /\ Len(calls[1]) >= 4
    /\ calls[1][3].op = "ImagePull"

\* C18: no container is created with an empty command: when the repository
\* URL, the branch or the command template is empty, Create fails and
\* ContainerCreate is not issued.
C18_EmptyCommandIsFatal ==
    \A r \in Records : \A i \in Idx(r) :
        calls[r][i].op = "ContainerCreate" =>
            /\ calls[r][i].cmd # <<>>
            /\ args[r].repositoryURL # <<>>
            /\ args[r].branch # <<>>
            /\ Command[r] # <<>>

RemoveCalls(r) == { i \in Idx(r) : calls[r][i].op = "ContainerRemove" }

\* C20: when Run has returned nil the record is complete: Status finished,
\* CID the identifier that create assigned, StartedAt and FinishedAt set and
\* in that order, Output the text read after the wait, one Remove attempt;
\* and Output is empty in every state where no Wait has returned without error.
C20_NilReturnMeansComplete ==
    \A r \in Records :
        /\ (Returned(r) /\ ret[r] = "nil") =>
              /\ Status[r] = "finished"
              /\ CID[r] = RespID(r)
              /\ \A i \in Idx(r) : calls[r][i].op # "ContainerCreate" => calls[r][i].cid \in {"", CID[r]}
              /\ StartedAt[r] # 0
              /\ FinishedAt[r] # 0
              /\ StartedAt[r] < FinishedAt[r]
              /\ \E i, j \in Idx(r) : WaitOK(r, i) /\ ReadOK(r, j) /\ i < j /\ Output[r] = calls[r][j].body
              /\ Cardinality(RemoveCalls(r)) = 1
        /\ Output[r] # "" => \E i \in Idx(r) : WaitOK(r, i)

C20_Witness ==
    /\ Returned(1)
    /\ ret[1] = "nil"
    /\ Output[1] = "scanner output"
    /\ StartedAt[1] < FinishedAt[1]
    /\ Len(adminLog[1]) = 0

\* ------------------------------------------------- claims on the evaluator
Evaluated == evalPc = "done"

Parsed == Evaluated /\ ~evalArgs.cOutput.marker /\ evalArgs.cOutput.wellFormed

Updates == { i \in DOMAIN evalLog : evalLog[i].step = "UpdateOne" }

Steps == { evalLog[i].step : i \in DOMAIN evalLog }

\* the severities of all vulnerabilities of all results of all issues
AllSeverities(data) ==
    { data[i].RetirejsResults[j].RetirejsVulnerabilities[k].Severity :
        <<i, j, k>> \in { t \in (DOMAIN data) \X (1..MaxDocSize + 1) \X (1..MaxDocSize + 1) :
            /\ t[2] \in DOMAIN data[t[1]].RetirejsResults
            /\ t[3] \in DOMAIN data[t[1]].RetirejsResults[t[2]].RetirejsVulnerabilities } }

Verdict(data) ==
    IF AllSeverities(data) \cap {"medium", "high"} # {} THEN "failed" ELSE "passed"

\* the evaluator issued one update that sets cResult to verdict, and the
\* record holds it when the gateway accepted the update
PersistsVerdict(verdict) ==
    \E i \in Updates :
        /\ "cResult" \in DOMAIN evalLog[i].set
        /\ evalLog[i].set.cResult = verdict
        /\ evalLog[i].ok => db[evalArgs.CID].cResult = verdict

\* C12 as stated: for every parsed output, also one without issues, the
\* verdict persisted is failed if some vulnerability is medium or high and
\* passed otherwise.
C12_VerdictForEveryParsedOutput ==
    Parsed => PersistsVerdict(Verdict(evalArgs.cOutput.data))

\* C12 amended: for every parsed output with at least one issue, the verdict
\* persisted is failed if and only if some vulnerability of some result of
\* some issue is medium or high, and passed otherwise.
C12_VerdictWhenIssues ==
    (Parsed /\ Len(evalArgs.cOutput.data) > 0) =>
        /\ PersistsVerdict(Verdict(evalArgs.cOutput.data))
        /\ \A i \in Updates : DOMAIN evalLog[i].set = {"cResult"}

\* a high vulnerability in the first issue, a low one scanned last in the second
C12_Witness ==
    /\ Parsed
    /\ Len(evalArgs.cOutput.data) = 2
    /\ AllSeverities(<< evalArgs.cOutput.data[1] >>) = {"high"}
    /\ AllSeverities(<< evalArgs.cOutput.data[2] >>) = {"low"}
    /\ db[evalArgs.CID].cResult = "failed"
    /\ \A i \in Updates : evalLog[i].ok

\* C13: a parsed output with zero issues makes the evaluator issue the update
\* that sets cOutput to "No issues found." and nothing else; the record's
\* cResult is what it was before.
C13_NoIssuesFound ==
    /\ [](Parsed /\ Len(evalArgs.cOutput.data) = 0 =>
             /\ Len(evalLog) = 2
             /\ evalLog[2].step = "UpdateOne"
             /\ evalLog[2].set = [cOutput |-> Text("No issues found.")]
             /\ evalLog[2].ok => db[evalArgs.CID].cOutput = Text("No issues found."))
    /\ [][(evalPc = "ready" /\ ~evalArgs.cOutput.marker /\ evalArgs.cOutput.wellFormed
             /\ Len(evalArgs.cOutput.data) = 0) =>
                \A cid \in CIDs : db'[cid].cResult = db[cid].cResult]_vars

C13_Witness ==
    /\ Parsed
    /\ Len(evalArgs.cOutput.data) = 0
    /\ db[evalArgs.CID] = [cOutput |-> Text("No issues found."), cResult |-> "failed"]

\* C14: raw output with the clone-failure marker makes the evaluator issue
\* the update that sets cResult to failed and cOutput to a text containing the
\* raw output, without any Unmarshal and without a severity scan, whether or
\* not the raw output is valid scanner JSON.
C14_CloneFailure ==
    (Evaluated /\ evalArgs.cOutput.marker) =>
        /\ Steps = {"UpdateOne"}
        /\ Len(evalLog) = 1
        /\ evalLog[1].set.cResult = "failed"
        /\ evalLog[1].set.cOutput.arg = << evalArgs.cOutput >>
        /\ evalLog[1].ok => db[evalArgs.CID] = evalLog[1].set

C14_Witness ==
    /\ Evaluated
    /\ evalArgs.cOutput.marker
    /\ evalArgs.cOutput.wellFormed
    /\ Len(evalArgs.cOutput.data) > 0
    /\ db[evalArgs.CID].cResult = "failed"
    /\ db[evalArgs.CID].cOutput.format = "Container error: %s"

\* C15: raw output without the marker that fails to unmarshal: the evaluator
\* returns without any gateway update and every record is what it was before.
C15_ParseFailureLeavesRecord ==
    /\ [](Evaluated /\ ~evalArgs.cOutput.marker /\ ~evalArgs.cOutput.wellFormed =>
             Steps = {"Unmarshal"})
    /\ [][(evalPc = "ready" /\ ~evalArgs.cOutput.marker /\ ~evalArgs.cOutput.wellFormed) =>
             db' = db]_vars

C15_Witness ==
    /\ Evaluated
    /\ ~evalArgs.cOutput.marker
    /\ ~evalArgs.cOutput.wellFormed
    /\ db[evalArgs.CID].cResult = "failed"

\* C16: one invocation issues at most one gateway update, addressed to its
\* own container identifier, on every path; only that one step changes the
\* records, and only the record of that identifier.
C16_AtMostOneUpdate ==
    /\ [](/\ Cardinality(Updates) <= 1
          /\ \A i \in Updates : evalLog[i].cid = evalArgs.CID
          /\ Cardinality({ i \in Updates : "cResult" \in DOMAIN evalLog[i].set }) <= 1)
    /\ [][db' # db =>
             /\ evalPc = "ready"
             /\ evalPc' = "done"
             /\ \A cid \in CIDs \ {evalArgs.CID} : db'[cid] = db[cid]]_vars

C16_Witness ==
    /\ Evaluated
    /\ Steps = {"Unmarshal", "scan", "UpdateOne"}
    /\ Cardinality(Updates) = 1
    /\ db[evalArgs.CID].cResult = "passed"

\* --------------------------------------------------- claims on HandleCmd
RECURSIVE Substituted(_, _, _)
\* the template with each of its own placeholder tokens replaced once
Substituted(cmd, repositoryURL, branch) ==
    IF cmd = <<>> THEN <<>>
    ELSE (CASE Head(cmd) = "%GIT_REPO%"   -> repositoryURL
            [] Head(cmd) = "%GIT_BRANCH%" -> branch
            [] OTHER                      -> << Head(cmd) >>)
         \o Substituted(Tail(cmd), repositoryURL, branch)

\* C17: HandleCmd returns the empty string when the repository URL, the
\* branch or the template is empty; otherwise it returns the template with
\* every %GIT_REPO% replaced by the repository URL, every %GIT_BRANCH% by
\* the branch, each once, and all other text unchanged.
C17_HandleCmdSubstitutes ==
    cmdPc = "done" =>
        cmdOut = IF cmdIn.repositoryURL = <<>> \/ cmdIn.branch = <<>> \/ cmdIn.cmd = <<>>
                 THEN <<>>
                 ELSE Substituted(cmdIn.cmd, cmdIn.repositoryURL, cmdIn.branch)

\* ------------------------------------------ claims on Run on several records
\* everything Run keeps for record r
RunState(r) ==
    << pc[r], ret[r], dockerClient[r], clientEnv[r], CID[r], Status[r], Command[r], Output[r],
       StartedAt[r], FinishedAt[r], args[r], calls[r], elapsed[r], tickPending[r], lateTicks[r] >>

RECURSIVE RunAlone(_, _, _)
\* the record and return value of a Run that executes alone on record r and is
\* given the first n runtime responses of log, one step of Run after the other
RunAlone(r, log, n) ==
    IF n = 0
    THEN [CID |-> "", Status |-> "", Output |-> "", StartedAt |-> 0, FinishedAt |-> 0,
          ret |-> "running"]
    ELSE LET c == RunAlone(r, log, n - 1)
             e == log[n]
         IN  CASE e.op = "ImageList" ->
                    IF e.res = "errImageList" THEN [c EXCEPT !.ret = e.res] ELSE c
               [] e.op = "ImagePull" ->
                    IF e.res = "ok" THEN c ELSE [c EXCEPT !.ret = e.res]
               [] e.op = "ContainerCreate" ->
                    IF e.res = "ok"
                    THEN [c EXCEPT !.CID = RespID(r), !.Status = "created", !.StartedAt = n + 1]
                    ELSE [c EXCEPT !.ret = e.res]
               [] e.op = "ContainerStart" ->
                    IF e.res = "ok"
                    THEN [c EXCEPT !.Status = "running"]
                    ELSE [c EXCEPT !.Status = "finished", !.ret = e.res]
               [] e.op = "ContainerWait" ->
                    IF e.res = "ok"
                    THEN [c EXCEPT !.FinishedAt = n + 1]
                    ELSE [c EXCEPT !.Status = "finished", !.ret = e.res]
               [] e.op = "ContainerLogs" ->
                    IF e.res = "ok" THEN c ELSE [c EXCEPT !.ret = e.res]
               [] e.op = "ReadAll" ->
                    IF e.res = "ok"
                    THEN [c EXCEPT !.Output = e.body, !.Status = "finished"]
                    ELSE [c EXCEPT !.ret = e.res]
               [] e.op = "ContainerRemove" -> [c EXCEPT !.ret = "nil"]

\* record r is as a Run alone would have left it on the same runtime responses
SameAsAlone(r) ==
    LET alone == RunAlone(r, calls[r], Len(calls[r]))
    IN  /\ CID[r] = alone.CID
        /\ Status[r] = alone.Status
        /\ Output[r] = alone.Output
        /\ StartedAt[r] = alone.StartedAt
        /\ FinishedAt[r] = alone.FinishedAt
        /\ ret[r] # alone.ret => /\ alone.ret = "running"
                                 /\ ret[r] \in {"timeout", "errSetenv", "errNewEnvClient"}

\* C19: Run invocations on distinct records are independent under every
\* interleaving of their steps: what Run keeps for a record changes only in a
\* step of that record's own Run, and one step changes one record; every
\* runtime call of a run carries no identifier or the identifier the runtime
\* gave to that run's container; every client was built from the DOCKER_*
\* values setDockerClientEnvs computes; and each record, at every point and
\* so at the end, is what a Run alone leaves on the same runtime responses.
C19_RunsAreIndependent ==
    /\ [][\A r \in Records :
             RunState(r)' # RunState(r) =>
                /\ RunStep(r)
                /\ \A q \in Records \ {r} : RunState(q)' = RunState(q)]_vars
    /\ [](\A r \in Records :
             /\ \A i \in DOMAIN calls[r] :
                   calls[r][i].cid = IF calls[r][i].op \in {"ImageList", "ImagePull", "ContainerCreate"}
                                     THEN "" ELSE RespID(r)
             /\ dockerClient[r] => \A k \in DOMAIN dockerEnv : clientEnv[r][k] = DockerEnvValue(k)
             /\ SameAsAlone(r))

\* both runs are under way at once, one past its output and one still waiting
C19_Witness ==
    /\ pc[1] = "remove" /\ Output[1] = "scanner output" /\ CID[1] = RespID(1)
    /\ pc[2] = "wait" /\ Status[2] = "running" /\ CID[2] = RespID(2)
    /\ Output[2] = ""

====
